---- MODULE Spec2Model ----
(***************************************************************************)
(* ImageClassificationRunner of mindspore/explainer                        *)
(* (_image_classification_runner.py): registration of explainers and       *)
(* benchmarkers, the precondition gate, and run() with its inference,      *)
(* explanation and benchmark passes writing to a summary log; and the      *)
(* incremental_learn loop of model_zoo/official/cv/mobilenetv2/train.py.   *)
(*                                                                         *)
(* Tensors are abstracted to what the runner's control flow reads of them: *)
(* the number of columns of a dataset row, the rank of the image and label *)
(* tensors, the label values, and the class probabilities (in tenths).     *)
(***************************************************************************)
EXTENDS Integers, Sequences, FiniteSets, TLC

VARIABLES
    dataset,          \* self._dataset: the batches the dataset yields, in iteration order
    nanAt,            \* sample ids for which a metric's evaluate() returns NaN
    explainers,       \* self._explainers   ([set |-> FALSE] is None)
    benchmarkers,     \* self._benchmarkers ([isNone |-> TRUE] is None)
    firstReg,         \* history: the arguments of the registration that succeeded
    err,              \* the exception the last operation raised, if any
    pc,               \* position of run(): "idle" outside run()
    runNo,            \* number of run() calls started
    summaryOpen,      \* the SummaryRecord of the current run() is open
    opened,           \* history: the run() calls that opened a SummaryRecord
    summary_timestamp,\* self._summary_timestamp
    sample_index,     \* self._sample_index
    sample_id_labels, \* the dict returned by _run_inference (index id+1)
    log,              \* the entries written to summary logs, in order
    files,            \* the image files written
    batchIdx,         \* position of the current dataset iteration (1-based)
    expIdx,           \* position in the loop over self._explainers
    benchIdx,         \* position in the loop over self._benchmarkers within a batch
    saliency_dict_lst,\* the label -> saliency dictionaries of the current batch
    aggregated,       \* per benchmarker: the (res, label) pairs passed to aggregate()
    evals,            \* the evaluate() calls made, in order
    \* train.py, incremental_learn
    config,           \* config.epoch_size, config.save_checkpoint_epochs
    step_size,        \* the number of cached features, from extract_features
    tpc,              \* position of the script: "off" when it is not run
    epoch,            \* the loop variable of line 104: the epochs completed
    idx_list,         \* the order of the feature indices, shuffled per epoch
    jPos,             \* position of the loop of line 108 in idx_list (1-based)
    trained,          \* history: the indices trained on in the current epoch
    checkpoints       \* the head checkpoints written, in order

vars == <<dataset, nanAt, explainers, benchmarkers, firstReg, err, pc, runNo,
          summaryOpen, opened, summary_timestamp, sample_index,
          sample_id_labels, log, files, batchIdx, expIdx, benchIdx,
          saliency_dict_lst, aggregated, evals,
          config, step_size, tpc, epoch, idx_list, jPos, trained, checkpoints>>

\* the variables of the training script
trainVars == <<config, step_size, tpc, epoch, idx_list, jPos, trained, checkpoints>>

\* the variables of the runner
runnerVars == <<dataset, nanAt, explainers, benchmarkers, firstReg, err, pc, runNo,
                summaryOpen, opened, summary_timestamp, sample_index,
                sample_id_labels, log, files, batchIdx, expIdx, benchIdx,
                saliency_dict_lst, aggregated, evals>>

-----------------------------------------------------------------------------
(* Bounds of the model *)

\* run() calls per behaviour
MaxRuns == 2

\* the largest sample id given to _save_original_image in ShardSpec
MaxSampleId == 2999

\* the largest config.epoch_size, step_size and config.save_checkpoint_epochs
MaxEpochs == 3
MaxStepSize == 3
MaxSaveEpochs == 3

-----------------------------------------------------------------------------
(* Program constants *)

\* _SAMPLE_PER_DIR
SamplePerDir == 1000

\* threshold=0.5 of _run_inference, in tenths
Threshold == 5

\* the step every summary.record(1) call passes
RecordStepArg == 1

\* len(self._labels): the class names the runner was constructed with
ClassNames == <<"cat", "dog">>

NumClasses == Len(ClassNames)

\* a metric result: a number, or not-a-number
Num(x) == [nan |-> FALSE, v |-> x]
NaN == [nan |-> TRUE, v |-> 0]

\* res == np.nan: elementwise IEEE comparison, false whenever a side is NaN
FloatEq(a, b) == ~a.nan /\ ~b.nan /\ a.v = b.v

-----------------------------------------------------------------------------
(* Generic helpers *)

Range(s) == {s[i] : i \in 1..Len(s)}

RECURSIVE SetToSeq(_)
\* iteration order of a Python set of small ints, taken as ascending
SetToSeq(S) ==
    IF S = {} THEN <<>>
    ELSE LET m == CHOOSE x \in S : \A y \in S : x <= y
         IN <<m>> \o SetToSeq(S \ {m})

RECURSIVE Dedup(_)
\* a sequence without the later repetitions of its elements
Dedup(s) ==
    IF s = <<>> THEN <<>>
    ELSE LET front == Dedup(SubSeq(s, 1, Len(s) - 1))
         IN IF s[Len(s)] \in Range(front) THEN front ELSE Append(front, s[Len(s)])

NoErr == [kind |-> "none", at |-> "none"]
Raise(kind, at) == [kind |-> kind, at |-> at]

-----------------------------------------------------------------------------
(* The dataset: what each iteration yields.  A row of the dataset is a batch  *)
(* [ncols, imgShape, labShape, bboxShape, rows]; rows[i] holds sample i's raw *)
(* label values gt, its class probabilities prob (tenths) and its number of   *)
(* bounding boxes nbox.                                                       *)

Sample(gt, prob) == [gt |-> gt, prob |-> prob, nbox |-> Len(gt)]

\* [images, labels] with labels of shape (N,): one scalar label per sample
ScalarBatch(rows) ==
    [ncols |-> 2, imgShape |-> <<Len(rows), 3, 2, 2>>, labShape |-> <<Len(rows)>>,
     bboxShape |-> <<>>, rows |-> rows]

\* [images, labels] with labels of shape (N, K): a row of labels per sample
MultiBatch(rows) ==
    [ncols |-> 2, imgShape |-> <<Len(rows), 3, 2, 2>>,
     labShape |-> <<Len(rows), Len(rows[1].gt)>>, bboxShape |-> <<>>, rows |-> rows]

\* [images, labels, bboxes] built on a two-column batch
WithBoxes(b) ==
    [b EXCEPT !.ncols = 3,
              !.bboxShape = IF Len(b.labShape) = 1 THEN <<Len(b.rows), 4>>
                            ELSE <<Len(b.rows), b.labShape[2], 4>>]

\* [images] alone, one CHW image per dataset row
ImageOnly(prob) ==
    [ncols |-> 1, imgShape |-> <<3, 2, 2>>, labShape |-> <<>>, bboxShape |-> <<>>,
     rows |-> <<Sample(<<>>, prob)>>]

Datasets ==
    { \* scalar labels, batches of 2 and 1
      << ScalarBatch(<<Sample(<<0>>, <<9, 1>>), Sample(<<1>>, <<6, 6>>)>>),
         ScalarBatch(<<Sample(<<0>>, <<2, 9>>)>>) >>,
      \* multi-label rows padded with -1, with bounding boxes
      << WithBoxes(MultiBatch(<<Sample(<<0, 1>>, <<9, 1>>), Sample(<<1, -1>>, <<1, 5>>)>>)),
         WithBoxes(MultiBatch(<<Sample(<<1, 1>>, <<9, 9>>)>>)) >>,
      \* scalar labels with bounding boxes, one label -1
      << WithBoxes(ScalarBatch(<<Sample(<<1>>, <<9, 1>>)>>)),
         WithBoxes(ScalarBatch(<<Sample(<<-1>>, <<1, 9>>)>>)) >>,
      \* scalar labels, one label equal to the number of classes
      << ScalarBatch(<<Sample(<<1>>, <<9, 1>>), Sample(<<2>>, <<1, 9>>)>>) >>,
      \* images only; the second image has no class above the threshold
      << ImageOnly(<<9, 6>>), ImageOnly(<<5, 1>>), ImageOnly(<<1, 9>>) >>
    }

\* the evaluations that come out not-a-number, by sample id
NanChoices == {{}, {1}}

\* len(inputs) after _transform_data
InputLen(b) == Len(b.rows)

-----------------------------------------------------------------------------
(* _unpack_next_element / _transform_data *)

\* the image tensor after the unsqueeze of a CHW image
ImgShape4(b) == IF Len(b.imgShape) = 3 THEN <<1>> \o b.imgShape ELSE b.imgShape

\* the shape of the labels tensor _transform_data works on: [[] for _ in inputs]
\* without a label column, the labels unsqueezed along with a CHW image
LabelTensorShape(b) ==
    IF b.ncols = 1 THEN <<b.imgShape[1], 0>>
    ELSE IF Len(b.imgShape) = 3 THEN <<1>> \o b.labShape
    ELSE b.labShape

\* a row of labels reduced to the distinct values in [0, num_classes)
FilterRow(gt) == SetToSeq({x \in Range(gt) : -1 < x /\ x < NumClasses})

\* labels_lst: [[int(i)] for i in labels] for a 1-D labels tensor, the filtered
\* rows of labels.reshape([input_len, -1]) otherwise
TransformLabels(b) ==
    IF Len(LabelTensorShape(b)) = 1
    THEN [i \in 1..Len(b.rows) |-> b.rows[i].gt]
    ELSE [i \in 1..InputLen(b) |-> FilterRow(b.rows[i].gt)]

\* the masks dictionary of one sample (ifbbox=True): its keys, or an IndexError
\* when a label in range has no box at its position
MaskKeys(row) == {x \in Range(row.gt) : -1 < x /\ x < NumClasses}

MaskIndexError(row) ==
    \E j \in 1..Len(row.gt) :
        -1 < row.gt[j] /\ row.gt[j] < NumClasses /\ j > row.nbox

-----------------------------------------------------------------------------
(* The precondition gate *)

\* an explainer or benchmarker object handed to register_saliency: cls is its
\* class (obj.__class__), name the name of that class (obj.__class__.__name__)
Explainer(cls, net) == [cls |-> cls, name |-> cls, net |-> net, isAttr |-> TRUE]
NotAttribution == [cls |-> "object", name |-> "object", net |-> "none", isAttr |-> FALSE]
Metric(cls, kind, n) ==
    [cls |-> cls, name |-> cls, kind |-> kind, num_labels |-> n, isMetric |-> TRUE]
NotMetric ==
    [cls |-> "object", name |-> "object", kind |-> "none", num_labels |-> 0,
     isMetric |-> FALSE]

IsLocalization(bench) == bench.kind = "loc"
IsLabelSensitive(bench) == bench.kind \in {"loc", "ls"}
IsLabelAgnostic(bench) == bench.kind = "la"

NoExplainers == [set |-> FALSE, items |-> <<>>]
NoBenchmarkers == [isNone |-> TRUE, items |-> <<>>]

\* _is_saliency_registered: bool(self._explainers)
IsSaliencyRegistered(expl) == expl.set /\ expl.items # <<>>

\* _verify_data on the first element of the dataset
VerifyData(b, bench) ==
    IF b.ncols \notin {1, 2, 3} THEN Raise("ValueError", "columns")
    ELSE IF b.ncols = 3 /\ b.bboxShape[Len(b.bboxShape)] # 4
        THEN Raise("ValueError", "bboxes_shape")
    ELSE IF b.ncols # 3 /\ ~bench.isNone
            /\ \E i \in 1..Len(bench.items) : IsLocalization(bench.items[i])
        THEN Raise("ValueError", "localization_needs_bboxes")
    ELSE IF Len(b.imgShape) > 4 \/ Len(b.imgShape) < 3
            \/ b.imgShape[Len(b.imgShape) - 2] \notin {1, 3, 4}
        THEN Raise("ValueError", "image_shape")
    ELSE IF b.ncols > 1 /\ Len(b.labShape) > 2
            /\ Cardinality({i \in 2..Len(b.labShape) : b.labShape[i] > 1}) > 1
        THEN Raise("ValueError", "label_shape")
    ELSE NoErr

\* _verify_network: the class names, then the width of the network's output
VerifyNetwork(names, b) ==
    IF \E i \in 1..Len(names) : names[i] \in {"", " "}
        THEN Raise("ValueError", "empty_label")
    ELSE IF \E i, j \in 1..Len(names) : i < j /\ names[i] = names[j]
        THEN Raise("ValueError", "duplicated_label")
    ELSE IF Len(b.rows[1].prob) # Len(names)
        THEN Raise("ValueError", "network_output")
    ELSE NoErr

\* _verify_saliency: the first explainer that is repeated or holds another
\* network raises, then the first benchmarker that is repeated or expects
\* another number of labels
\* the loop over the explainers without the comparison of the networks
ExplainerFault_NoNetworkCheck(items, i) ==
    IF \E j \in 1..(i - 1) : items[j].cls = items[i].cls THEN "repeated_explainer"
    ELSE "none"

ExplainerFault(items, i) ==
    IF \E j \in 1..(i - 1) : items[j].cls = items[i].cls THEN "repeated_explainer"
    ELSE IF items[i].net # "runner" THEN "explainer_network"
    ELSE "none"

BenchmarkerFault(items, i) ==
    IF \E j \in 1..(i - 1) : items[j].cls = items[i].cls THEN "repeated_benchmarker"
    ELSE IF IsLabelSensitive(items[i]) /\ items[i].num_labels # NumClasses THEN "num_labels"
    ELSE "none"

VerifySaliency(expl, bench) ==
    LET eBad == {i \in 1..Len(expl.items) : ExplainerFault(expl.items, i) # "none"}
        bBad == {i \in 1..Len(bench.items) : BenchmarkerFault(bench.items, i) # "none"}
        first(S) == CHOOSE i \in S : \A j \in S : i <= j
    IN IF expl.set /\ eBad # {}
           THEN Raise("ValueError", ExplainerFault(expl.items, first(eBad)))
       ELSE IF ~bench.isNone /\ bBad # {}
           THEN Raise("ValueError", BenchmarkerFault(bench.items, first(bBad)))
       ELSE NoErr

\* _verify_data_n_settings; readOk is whether the dataset's iterator yields its
\* first element (next(create_tuple_iterator())) or raises
VerifyDataNSettings(expl, bench, ds, readOk, check_registration, check_data_n_network, check_saliency) ==
    IF check_registration /\ ~IsSaliencyRegistered(expl)
        THEN Raise("ValueError", "not_registered")
    ELSE IF (check_data_n_network \/ check_saliency) /\ ~readOk
        THEN Raise("RuntimeError", "dataset_read")
    ELSE IF (check_data_n_network \/ check_saliency) /\ VerifyData(ds[1], bench) # NoErr
        THEN VerifyData(ds[1], bench)
    ELSE IF check_data_n_network /\ VerifyNetwork(ClassNames, ds[1]) # NoErr
        THEN VerifyNetwork(ClassNames, ds[1])
    ELSE IF check_saliency THEN VerifySaliency(expl, bench)
    ELSE NoErr

-----------------------------------------------------------------------------
(* register_saliency *)

\* the exception an operation ended with (kind "none": it returned)
Outcome(op, e) == [op |-> op, kind |-> e.kind, at |-> e.at]

RISE == Explainer("RISE", "runner")
Gradient == Explainer("Gradient", "runner")
GradientOther == Explainer("Gradient", "other")
\* an explainer of another class that is also called Gradient (a subclass
\* defined in another module)
GradientNamesake == [Explainer("user.Gradient", "runner") EXCEPT !.name = "Gradient"]
Localization == Metric("Localization", "loc", NumClasses)
Faithfulness == Metric("Faithfulness", "ls", NumClasses)
FaithfulnessBad == Metric("Faithfulness", "ls", NumClasses + 1)
ClassSensitivity == Metric("ClassSensitivity", "la", 0)
CustomMetric == Metric("CustomMetric", "other", 0)

ListArg(items) == [isNone |-> FALSE, isList |-> TRUE, items |-> items]
NoneArg == [isNone |-> TRUE, isList |-> FALSE, items |-> <<>>]
TupleArg(items) == [isNone |-> FALSE, isList |-> FALSE, items |-> items]

\* the values tried for the argument explainers
ExplainerArgs ==
    { TupleArg(<<Gradient>>), ListArg(<<>>), ListArg(<<NotAttribution>>),
      ListArg(<<Gradient>>), ListArg(<<RISE, Gradient>>),
      ListArg(<<Gradient, Gradient>>), ListArg(<<GradientOther>>),
      ListArg(<<Gradient, GradientNamesake>>) }

\* the values tried for the argument benchmarkers
BenchmarkerArgs ==
    { NoneArg, ListArg(<<>>), TupleArg(<<Faithfulness>>), ListArg(<<NotMetric>>),
      ListArg(<<Localization, ClassSensitivity>>), ListArg(<<Faithfulness>>),
      ListArg(<<CustomMetric>>), ListArg(<<Faithfulness, Faithfulness>>),
      ListArg(<<FaithfulnessBad>>) }

\* truth value of an argument: None and empty containers are false
Truthy(arg) == ~arg.isNone /\ arg.items # <<>>

\* the argument checks without the check of an earlier registration
RegisterArgFault_Overwrites(ea, ba, expl) ==
    IF ~ea.isList THEN Raise("TypeError", "argument")
    ELSE IF \E i \in 1..Len(ea.items) : ~ea.items[i].isAttr
        THEN Raise("TypeError", "argument")
    ELSE IF ea.items = <<>> THEN Raise("ValueError", "argument")
    ELSE IF Truthy(ba) /\ ~ba.isList THEN Raise("TypeError", "argument")
    ELSE IF Truthy(ba) /\ \E i \in 1..Len(ba.items) : ~ba.items[i].isMetric
        THEN Raise("TypeError", "argument")
    ELSE NoErr

\* lines 163-176: the argument checks, then the check of an earlier registration
RegisterArgFault(ea, ba, expl) ==
    IF ~ea.isList THEN Raise("TypeError", "argument")
    ELSE IF \E i \in 1..Len(ea.items) : ~ea.items[i].isAttr
        THEN Raise("TypeError", "argument")
    ELSE IF ea.items = <<>> THEN Raise("ValueError", "argument")
    ELSE IF Truthy(ba) /\ ~ba.isList THEN Raise("TypeError", "argument")
    ELSE IF Truthy(ba) /\ \E i \in 1..Len(ba.items) : ~ba.items[i].isMetric
        THEN Raise("TypeError", "argument")
    ELSE IF expl.set THEN Raise("RuntimeError", "registered_already")
    ELSE NoErr

\* lines 181-186: the exceptions after which the registration is undone
RolledBack(e) == e.kind \in {"ValueError", "TypeError"}

\* the verification of lines 181-182 and what follows it; readOk is whether
\* the dataset's iterator yields its first element
RegisterVerified(ea, ba, readOk) ==
    LET newE == [set |-> TRUE, items |-> ea.items]
        newB == [isNone |-> ba.isNone, items |-> ba.items]
        check == VerifyDataNSettings(newE, newB, dataset, readOk, FALSE, FALSE, TRUE)
    IN /\ err' = Outcome("register_saliency", check)
       /\ explainers' = IF RolledBack(check) THEN NoExplainers ELSE newE
       /\ benchmarkers' = IF RolledBack(check) THEN NoBenchmarkers ELSE newB
       /\ firstReg' = IF check # NoErr \/ firstReg.set THEN firstReg
                      ELSE [set |-> TRUE, explainers |-> newE, benchmarkers |-> newB]

register_saliency(ea, ba) ==
    /\ pc = "idle"
    /\ LET fault == RegisterArgFault(ea, ba, explainers)
       IN IF fault # NoErr
          THEN /\ err' = Outcome("register_saliency", fault)
               /\ UNCHANGED <<explainers, benchmarkers, firstReg>>
          ELSE \E readOk \in BOOLEAN : RegisterVerified(ea, ba, readOk)
    /\ UNCHANGED trainVars
    /\ UNCHANGED <<dataset, nanAt, pc, runNo, summaryOpen, opened, summary_timestamp,
                   sample_index, sample_id_labels, log, files, batchIdx, expIdx,
                   benchIdx, saliency_dict_lst, aggregated, evals>>

-----------------------------------------------------------------------------
(* The summary log and the image files *)

\* the metrics' classes, which key their accumulated state
BenchmarkerClasses == {"Localization", "Faithfulness", "ClassSensitivity", "CustomMetric"}

NoTimestamp == [isNone |-> TRUE, v |-> 0]
Timestamp(v) == [isNone |-> FALSE, v |-> v]

\* a summary file name as tokens: the text "summary.", a run of digits, other text
Lit(text) == [isNum |-> FALSE, text |-> text, num |-> 0]
Digits(n) == [isNum |-> TRUE, text |-> "", num |-> n]

\* the names SummaryRecord may give the event file of the r-th run
EventFileNames(r) ==
    { <<Lit("events.out.events."), Lit("summary."), Digits(r), Lit(".host_MS")>>,
      <<Lit("summary."), Lit("x"), Lit("summary."), Digits(r)>>,
      <<Lit("events.out."), Digits(r)>> }

\* _extract_timestamp: re.search(r"summary\.(\d+)", filename)
ExtractTimestamp(fname) ==
    LET hits == {i \in 1..(Len(fname) - 1) :
                    ~fname[i].isNum /\ fname[i].text = "summary." /\ fname[i + 1].isNum}
    IN IF hits = {} THEN NoTimestamp
       ELSE Timestamp(fname[(CHOOSE i \in hits : \A j \in hits : i <= j) + 1].num)

\* the quotient rounded to the nearest integer instead of truncated
GetSampleDirname_Rounded(sample_id) ==
    ((2 * sample_id + SamplePerDir) \div (2 * SamplePerDir)) * SamplePerDir

\* _get_sample_dirname: int(sample_id / _SAMPLE_PER_DIR) * _SAMPLE_PER_DIR
GetSampleDirname(sample_id) == (sample_id \div SamplePerDir) * SamplePerDir

\* _save_original_image: the relative path of the file it writes
OriginalImagePath(ts, sample_id) ==
    [kind |-> "origin_images", ts |-> ts, method |-> "",
     dir |-> GetSampleDirname(sample_id), id |-> sample_id, label |-> 0]

\* _save_heatmap: the relative path of the file it writes
HeatmapPath(ts, method, class_id, sample_id) ==
    [kind |-> "heatmap", ts |-> ts, method |-> method,
     dir |-> GetSampleDirname(sample_id), id |-> sample_id, label |-> class_id]

\* a value handed to summary.add_value("explainer", type, explain); exp is
\* history: the position in self._explainers of the explainer it was made for
Value(type, id, method, labels, predicted, scores) ==
    [type |-> type, id |-> id, method |-> method, labels |-> labels,
     predicted |-> predicted, scores |-> scores,
     explain_method |-> <<>>, benchmark_method |-> <<>>, exp |-> 0]

\* a running step instead of the constant
RecordStep_Counting(written) == written + 1

\* the step of a summary.record(1) call made when the log holds `written` entries
RecordStep(written) == RecordStepArg

\* summary.record(step): the pending values become entries of the run's log
Entry(value, run, step) == [run |-> run, step |-> step] @@ value

\* run() without the with-block: an exception leaves the SummaryRecord open
ExitRun_LeavesOpen(e) ==
    /\ pc' = "idle"
    /\ summaryOpen' = (e.kind # "none")
    /\ err' = Outcome("run", e)

\* leaving the with-block of run(): the SummaryRecord is closed, e propagates
ExitRun(e) ==
    /\ pc' = "idle"
    /\ summaryOpen' = FALSE
    /\ err' = Outcome("run", e)

-----------------------------------------------------------------------------
(* run(): the gate, the SummaryRecord, the metadata *)

\* _run_saliency takes its second branch: benchmarkers were registered
HasBenchmarkers(bench) == ~bench.isNone /\ bench.items # <<>>

\* [obj.__class__.__name__ for obj in items]
NamesOf(items) == [i \in 1..Len(items) |-> items[i].name]

ClassesOf(items) == [i \in 1..Len(items) |-> items[i].cls]

\* the SummaryRecord opened and the metadata written before the gate is passed
run_begin_late(readOk, fname) ==
    /\ pc = "idle"
    /\ runNo < MaxRuns
    /\ runNo' = runNo + 1
    /\ opened' = opened \cup {runNo + 1}
    /\ summary_timestamp' = ExtractTimestamp(fname)
    /\ log' = Append(log, Entry(Value("metadata", -1, "", <<>>, <<>>, <<>>), runNo + 1,
                                RecordStep(Len(log))))
    /\ LET check == VerifyDataNSettings(explainers, benchmarkers, dataset, readOk,
                                        TRUE, TRUE, TRUE)
       IN IF check # NoErr THEN ExitRun(check)
          ELSE IF ExtractTimestamp(fname).isNone
          THEN ExitRun(Raise("RuntimeError", "timestamp"))
          ELSE /\ pc' = "inference"
               /\ summaryOpen' = TRUE
               /\ err' = Outcome("run", NoErr)
    /\ sample_index' = 0
    /\ sample_id_labels' = <<>>
    /\ batchIdx' = 1
    /\ UNCHANGED trainVars
    /\ UNCHANGED <<dataset, nanAt, explainers, benchmarkers, firstReg, files, expIdx,
                   benchIdx, saliency_dict_lst, aggregated, evals>>

\* lines 200-209: the gate, then the SummaryRecord is opened and the timestamp
\* is read off its file name
run_begin(readOk, fname) ==
    /\ pc = "idle"
    /\ runNo < MaxRuns
    /\ runNo' = runNo + 1
    /\ LET check == VerifyDataNSettings(explainers, benchmarkers, dataset, readOk,
                                        TRUE, TRUE, TRUE)
           ts == ExtractTimestamp(fname)
       IN IF check # NoErr
          THEN /\ err' = Outcome("run", check)
               /\ UNCHANGED <<pc, summaryOpen, opened, summary_timestamp>>
          ELSE /\ opened' = opened \cup {runNo + 1}
               /\ summary_timestamp' = ts
               /\ IF ts.isNone
                  THEN ExitRun(Raise("RuntimeError", "timestamp"))
                  ELSE /\ pc' = "metadata"
                       /\ summaryOpen' = TRUE
                       /\ err' = Outcome("run", NoErr)
    /\ UNCHANGED trainVars
    /\ UNCHANGED <<dataset, nanAt, explainers, benchmarkers, firstReg, sample_index,
                   sample_id_labels, log, files, batchIdx, expIdx, benchIdx,
                   saliency_dict_lst, aggregated, evals>>

\* _save_metadata and _run_inference without self._sample_index = 0
save_metadata_NoReset ==
    /\ pc = "metadata"
    /\ log' = Append(log, Entry(Value("metadata", -1, "", <<>>, <<>>, <<>>), runNo,
                                RecordStep(Len(log))))
    /\ pc' = "inference"
    /\ sample_id_labels' = <<>>
    /\ batchIdx' = 1
    /\ UNCHANGED trainVars
    /\ UNCHANGED <<dataset, nanAt, explainers, benchmarkers, firstReg, err, runNo,
                   summaryOpen, opened, summary_timestamp, files, expIdx, benchIdx,
                   saliency_dict_lst, aggregated, evals, sample_index>>

\* _save_metadata, then the first lines of _run_inference
save_metadata ==
    /\ pc = "metadata"
    /\ LET registered == IsSaliencyRegistered(explainers)
           meta == [Value("metadata", -1, "", <<>>, <<>>, <<>>) EXCEPT
                      !.explain_method =
                          IF registered THEN NamesOf(explainers.items) ELSE <<>>,
                      !.benchmark_method =
                          IF registered /\ ~benchmarkers.isNone
                          THEN NamesOf(benchmarkers.items) ELSE <<>>]
       IN log' = Append(log, Entry(meta, runNo, RecordStep(Len(log))))
    /\ pc' = "inference"
    /\ sample_index' = 0
    /\ sample_id_labels' = <<>>
    /\ batchIdx' = 1
    /\ UNCHANGED trainVars
    /\ UNCHANGED <<dataset, nanAt, explainers, benchmarkers, firstReg, err, runNo,
                   summaryOpen, opened, summary_timestamp, files, expIdx, benchIdx,
                   saliency_dict_lst, aggregated, evals>>

-----------------------------------------------------------------------------
(* _run_inference *)

SeqMax(lens) == IF lens = {} THEN 0 ELSE CHOOSE m \in lens : \A x \in lens : x <= m
SetMin(S) == CHOOSE m \in S : \A x \in S : m <= x

\* the classes whose probability reaches the threshold
PredictedLabels_AtLeast(prob, threshold) ==
    SetToSeq({c \in 0..(Len(prob) - 1) : prob[c + 1] >= threshold})

\* (prob[idx] > threshold).nonzero()[0]: the classes above the threshold, ascending
PredictedLabels(prob, threshold) ==
    SetToSeq({c \in 0..(Len(prob) - 1) : prob[c + 1] > threshold})

\* prob[idx][i] raises IndexError outside [-len, len)
ProbIndexError(prob, gt_labels) ==
    \E k \in 1..Len(gt_labels) : gt_labels[k] >= Len(prob) \/ gt_labels[k] < -Len(prob)

\* list(set(gt_labels + predicted_labels))
UnionLabels(gt_labels, predicted_labels) ==
    SetToSeq(Range(gt_labels) \cup Range(predicted_labels))

\* the benchmarkers keep what they have aggregated
ResetBenchmarkers_Never(agg, bench) == agg

\* lines 317-325 (and 304-305): a dataset pass of an explainer begins; with
\* benchmarkers registered each of them is reset
ResetBenchmarkers(agg, bench) ==
    IF HasBenchmarkers(bench)
    THEN [c \in BenchmarkerClasses |->
            IF c \in Range(ClassesOf(bench.items)) THEN <<>> ELSE agg[c]]
    ELSE agg

\* the loop left after its first iteration
InferenceLoopEnds_Early(i) == TRUE

\* line 257: the loop of _run_inference over the dataset ends after its last batch
InferenceLoopEnds(i) == ~(i < Len(dataset))

\* lines 257-295: one iteration of the loop over the dataset; the samples before
\* the first one that raises are written
run_inference_batch ==
    /\ pc = "inference"
    /\ LET b == dataset[batchIdx]
           labels == TransformLabels(b)
           n == InputLen(b)
           bad == {i \in 1..n : i > Len(labels)
                                \/ ProbIndexError(b.rows[i].prob, labels[i])}
           cnt == IF bad = {} THEN n ELSE SetMin(bad) - 1
           predicted(i) == PredictedLabels(b.rows[i].prob, Threshold)
           union(i) == UnionLabels(labels[i], predicted(i))
           id(i) == sample_index + i - 1
           written(i) == Len(log) + 2 * (i - 1)
           values(i) ==
               << Value("sample", id(i), "", <<>>, <<>>, <<>>),
                  Value("inference", id(i), "", labels[i], predicted(i), <<>>) >>
       IN /\ log' = log \o [j \in 1..(2 * cnt) |->
                        Entry(values((j + 1) \div 2)[2 - (j % 2)], runNo,
                              RecordStep(written((j + 1) \div 2)))]
          /\ files' = files \cup
                 {OriginalImagePath(summary_timestamp.v, id(i)) : i \in 1..cnt}
          /\ sample_id_labels' = sample_id_labels \o [i \in 1..cnt |-> union(i)]
          /\ IF cnt < n
             THEN /\ ExitRun(Raise("IndexError", "ground_truth_prob"))
                  /\ sample_index' = sample_index + cnt
                  /\ UNCHANGED <<batchIdx, expIdx, aggregated>>
             ELSE IF ~InferenceLoopEnds(batchIdx)
             THEN /\ batchIdx' = batchIdx + 1
                  /\ sample_index' = sample_index + cnt
                  /\ UNCHANGED <<pc, summaryOpen, err, expIdx, aggregated>>
             ELSE /\ pc' = "saliency"
                  /\ sample_index' = sample_index + cnt
                  /\ UNCHANGED <<summaryOpen, err, batchIdx, expIdx, aggregated>>
    /\ UNCHANGED trainVars
    /\ UNCHANGED <<dataset, nanAt, explainers, benchmarkers, firstReg, runNo, opened,
                   summary_timestamp, benchIdx, saliency_dict_lst, evals>>

-----------------------------------------------------------------------------
(* _run_saliency: _run_exp_step, _run_exp_benchmark_step, the benchmark entry *)

NoSaliency == [exp |-> 0, batch |-> 0, firstId |-> 0, dicts |-> <<>>]

\* _make_label_batch: max_len, the width of the padded label batch
MaxLen(unions) == SeqMax({Len(unions[i]) : i \in 1..Len(unions)})

\* a dataset pass of the explainer at index e begins
BeginPass(e) ==
    /\ pc' = "explain"
    /\ expIdx' = e
    /\ batchIdx' = 1
    /\ sample_index' = 0
    /\ aggregated' = ResetBenchmarkers(aggregated, benchmarkers)

\* lines 214-215: after the inference pass, _run_saliency when registered
run_saliency_begin ==
    /\ pc = "saliency"
    /\ IF IsSaliencyRegistered(explainers)
       THEN BeginPass(1) /\ UNCHANGED <<summaryOpen, err>>
       ELSE ExitRun(NoErr) /\ UNCHANGED <<expIdx, batchIdx, sample_index, aggregated>>
    /\ UNCHANGED trainVars
    /\ UNCHANGED <<dataset, nanAt, explainers, benchmarkers, firstReg, runNo, opened,
                   summary_timestamp, sample_id_labels, log, files, benchIdx,
                   saliency_dict_lst, evals>>

\* _make_label_batch: the rows of labels padded with zeros to max_len
MakeLabelBatch(unions) ==
    [i \in 1..Len(unions) |->
        unions[i] \o [k \in 1..(MaxLen(unions) - Len(unions[i])) |-> 0]]

\* the entries made from the rows of the padded batch
ExplainedLabels_Padded(unions, i) == MakeLabelBatch(unions)[i]

\* lines 392 and 396: the labels the i-th sample of the batch gets an
\* explanation entry and a dictionary key for
ExplainedLabels(unions, i) == unions[i]

\* the counter is not advanced inside the loop over the batch
ExplanationId_Stuck(first, i) == first

\* lines 395 and 412: the sample id of the i-th explanation record of a batch
\* whose first sample has the id first
ExplanationId(first, i) == first + i - 1

\* _run_exp_step on the batch at batchIdx, for the explainer at expIdx
run_exp_step ==
    /\ pc = "explain"
    /\ LET b == dataset[batchIdx]
           explainer == explainers.items[expIdx]
           labels == TransformLabels(b)
           n == Len(labels)
           missing == \E i \in 1..n : sample_index + i > Len(sample_id_labels)
           unions == [i \in 1..n |-> sample_id_labels[sample_index + i]]
           emptyConcat == explainer.cls # "RISE" /\ MaxLen(unions) = 0
           id(i) == ExplanationId(sample_index, i)
           labs(i) == ExplainedLabels(unions, i)
           entries == [i \in 1..n |->
                         Entry([Value("explanation", id(i), explainer.name, labs(i),
                                      <<>>, <<>>) EXCEPT !.exp = expIdx],
                               runNo, RecordStep(Len(log) + i - 1))]
       IN IF missing \/ emptyConcat
          THEN /\ ExitRun(IF missing THEN Raise("KeyError", "sample_id_labels")
                          ELSE Raise("ValueError", "concat_of_nothing"))
               /\ UNCHANGED <<log, files, sample_index, saliency_dict_lst, batchIdx,
                              expIdx, benchIdx, aggregated>>
          ELSE /\ log' = log \o entries
               /\ files' = files \cup UNION
                      {{HeatmapPath(summary_timestamp.v, explainer.name, labs(i)[k], id(i)) :
                           k \in 1..Len(labs(i))} : i \in 1..n}
               /\ saliency_dict_lst' =
                      [exp |-> expIdx, batch |-> batchIdx, firstId |-> sample_index,
                       dicts |-> [i \in 1..n |-> Dedup(labs(i))]]
               /\ sample_index' = sample_index + n
               /\ IF HasBenchmarkers(benchmarkers)
                  THEN pc' = "benchmark" /\ benchIdx' = 1 /\ UNCHANGED batchIdx
                  ELSE IF batchIdx < Len(dataset)
                  THEN batchIdx' = batchIdx + 1 /\ UNCHANGED <<pc, benchIdx>>
                  ELSE pc' = "pass_end" /\ UNCHANGED <<batchIdx, benchIdx>>
               /\ UNCHANGED <<summaryOpen, err, expIdx, aggregated>>
    /\ UNCHANGED trainVars
    /\ UNCHANGED <<dataset, nanAt, explainers, benchmarkers, firstReg, runNo, opened,
                   summary_timestamp, sample_id_labels, evals>>

RECURSIVE Flatten(_, _)
\* the (sample, label) pairs the two loops of _run_exp_benchmark_step visit, in order
Flatten(dicts, i) ==
    IF i > Len(dicts) THEN <<>>
    ELSE [k \in 1..Len(dicts[i]) |-> [idx |-> i, label |-> dicts[i][k]]]
         \o Flatten(dicts, i + 1)

\* benchmarker.evaluate(...): the metric's result for a sample
Evaluate(sample_id) == IF sample_id \in nanAt THEN NaN ELSE Num(1)

\* lines 428-429 (433-434, 438-439): if np.any(res == np.nan): res = np.zeros_like(res)
NanToZero(res) == IF FloatEq(res, NaN) THEN Num(0) ELSE res

\* what the body of the loops does for one (sample, label) pair: "evaluate",
\* "skip", or the exception it raises
PairAction(benchmarker, b, labels, pair) ==
    IF IsLocalization(benchmarker)
    THEN IF \E i \in 1..Len(b.rows) : b.ncols = 3 /\ MaskIndexError(b.rows[i])
             THEN Raise("IndexError", "bbox_index")
         ELSE IF pair.label \notin Range(labels[pair.idx]) THEN Raise("none", "skip")
         ELSE IF b.ncols # 3 THEN Raise("TypeError", "bboxes_none")
         ELSE IF pair.label \notin MaskKeys(b.rows[pair.idx])
             THEN Raise("KeyError", "mask_lookup")
         ELSE Raise("none", "evaluate")
    ELSE IF IsLabelSensitive(benchmarker) \/ IsLabelAgnostic(benchmarker)
        THEN Raise("none", "evaluate")
    ELSE Raise("TypeError", "benchmarker_kind")

\* _run_exp_benchmark_step for the benchmarker at benchIdx on the current batch;
\* the pairs before the first one that raises are evaluated and aggregated
run_exp_benchmark_step ==
    /\ pc = "benchmark"
    /\ LET b == dataset[batchIdx]
           benchmarker == benchmarkers.items[benchIdx]
           explainer == explainers.items[expIdx]
           labels == TransformLabels(b)
           firstId == saliency_dict_lst.firstId
           pairs == Flatten(SubSeq(saliency_dict_lst.dicts, 1, InputLen(b)), 1)
           act(k) == PairAction(benchmarker, b, labels, pairs[k])
           bad == {k \in 1..Len(pairs) : act(k).kind # "none"}
           cnt == IF bad = {} THEN Len(pairs) ELSE SetMin(bad) - 1
           done == SelectSeq(SubSeq(pairs, 1, cnt),
                             LAMBDA pr : PairAction(benchmarker, b, labels, pr).at = "evaluate")
           call(pr) == [benchmarker |-> benchmarker.cls, explainer |-> explainer.cls,
                        exp |-> expIdx,
                        id |-> firstId + pr.idx - 1, label |-> pr.label,
                        run |-> runNo, written |-> Len(log)]
           passed(pr) == [res |-> NanToZero(Evaluate(firstId + pr.idx - 1)),
                          label |-> pr.label,
                          labelled |-> ~IsLabelAgnostic(benchmarker)]
       IN /\ evals' = evals \o [k \in 1..Len(done) |-> call(done[k])]
          /\ aggregated' = [aggregated EXCEPT ![benchmarker.cls] =
                               @ \o [k \in 1..Len(done) |-> passed(done[k])]]
          /\ IF bad # {}
             THEN ExitRun(act(SetMin(bad))) /\ UNCHANGED <<batchIdx, benchIdx>>
             ELSE /\ UNCHANGED <<summaryOpen, err>>
                  /\ IF benchIdx < Len(benchmarkers.items)
                     THEN benchIdx' = benchIdx + 1 /\ UNCHANGED <<pc, batchIdx>>
                     ELSE IF batchIdx < Len(dataset)
                     THEN pc' = "explain" /\ batchIdx' = batchIdx + 1 /\ UNCHANGED benchIdx
                     ELSE pc' = "pass_end" /\ UNCHANGED <<batchIdx, benchIdx>>
    /\ UNCHANGED trainVars
    /\ UNCHANGED <<dataset, nanAt, explainers, benchmarkers, firstReg, runNo, opened,
                   summary_timestamp, sample_index, sample_id_labels, log, files,
                   expIdx, saliency_dict_lst>>

\* bench.performance: the score a metric reports for what it aggregated
Performance(agg) ==
    IF \E k \in 1..Len(agg) : agg[k].res.nan THEN NaN
    ELSE Num(Cardinality({k \in 1..Len(agg) : agg[k].res.v # 0}))

\* the scores of one benchmark value with only the last metric's score in it
BenchmarkScores_Overwritten(bench, agg) ==
    LET last == bench.items[Len(bench.items)]
    IN << [benchmark_method |-> last.name,
           total_score |-> Performance(agg[last.cls]),
           label_score |-> IsLabelSensitive(last)] >>

\* lines 344-351: one benchmark score per benchmarker, with the per-label
\* scores when the benchmarker is a LabelSensitiveMetric
BenchmarkScores(bench, agg) ==
    [i \in 1..Len(bench.items) |->
        [benchmark_method |-> bench.items[i].name,
         total_score |-> Performance(agg[bench.items[i].cls]),
         label_score |-> IsLabelSensitive(bench.items[i])]]

\* lines 344-356 (313-315 without benchmarkers): the explainer's pass is over;
\* with benchmarkers its benchmark entry is written; then the next explainer's
\* pass begins, or run() returns
finish_explainer_pass ==
    /\ pc = "pass_end"
    /\ LET explainer == explainers.items[expIdx]
           value == [Value("benchmark", -1, explainer.name, <<>>, <<>>,
                           BenchmarkScores(benchmarkers, aggregated))
                       EXCEPT !.exp = expIdx]
       IN log' = IF HasBenchmarkers(benchmarkers)
                 THEN Append(log, Entry(value, runNo, RecordStep(Len(log))))
                 ELSE log
    /\ IF expIdx < Len(explainers.items)
       THEN BeginPass(expIdx + 1) /\ UNCHANGED <<summaryOpen, err>>
       ELSE ExitRun(NoErr) /\ UNCHANGED <<expIdx, batchIdx, sample_index, aggregated>>
    /\ UNCHANGED trainVars
    /\ UNCHANGED <<dataset, nanAt, explainers, benchmarkers, firstReg, runNo, opened,
                   summary_timestamp, sample_id_labels, files, benchIdx,
                   saliency_dict_lst, evals>>

-----------------------------------------------------------------------------
(* The specification *)

\* the training script is not run
TrainIdle ==
    /\ config = [epoch_size |-> 0, save_checkpoint_epochs |-> 1]
    /\ step_size = 0
    /\ tpc = "off"
    /\ epoch = 0
    /\ idx_list = <<>>
    /\ jPos = 1
    /\ trained = <<>>
    /\ checkpoints = <<>>

Init ==
    /\ TrainIdle
    /\ dataset \in Datasets
    /\ nanAt \in NanChoices
    /\ explainers = NoExplainers
    /\ benchmarkers = NoBenchmarkers
    /\ firstReg = [set |-> FALSE, explainers |-> NoExplainers,
                   benchmarkers |-> NoBenchmarkers]
    /\ err = Outcome("__init__", NoErr)
    /\ pc = "idle"
    /\ runNo = 0
    /\ summaryOpen = FALSE
    /\ opened = {}
    /\ summary_timestamp = NoTimestamp
    /\ sample_index = -1
    /\ sample_id_labels = <<>>
    /\ log = <<>>
    /\ files = {}
    /\ batchIdx = 1
    /\ expIdx = 1
    /\ benchIdx = 1
    /\ saliency_dict_lst = NoSaliency
    /\ aggregated = [c \in BenchmarkerClasses |-> <<>>]
    /\ evals = <<>>

Next ==
    \/ \E ea \in ExplainerArgs, ba \in BenchmarkerArgs : register_saliency(ea, ba)
    \/ \E readOk \in BOOLEAN, fname \in EventFileNames(runNo + 1) :
           run_begin(readOk, fname)
    \/ save_metadata
    \/ run_inference_batch
    \/ run_saliency_begin
    \/ run_exp_step
    \/ run_exp_benchmark_step
    \/ finish_explainer_pass

Spec == Init /\ [][Next]_vars

-----------------------------------------------------------------------------
(* _save_original_image and _get_sample_dirname over the ids 0..MaxSampleId:  *)
(* the inference loop of a dataset of MaxSampleId + 1 samples, reduced to the *)
(* files it writes                                                            *)

ShardInit ==
    /\ TrainIdle
    /\ dataset = <<>>
    /\ nanAt = {}
    /\ explainers = [set |-> TRUE, items |-> <<Gradient>>]
    /\ benchmarkers = NoBenchmarkers
    /\ firstReg = [set |-> TRUE, explainers |-> explainers,
                   benchmarkers |-> NoBenchmarkers]
    /\ err = Outcome("run", NoErr)
    /\ pc = "inference"
    /\ runNo = 1
    /\ summaryOpen = TRUE
    /\ opened = {1}
    /\ summary_timestamp = Timestamp(1)
    /\ sample_index = 0
    /\ sample_id_labels = <<>>
    /\ log = <<>>
    /\ files = {}
    /\ batchIdx = 1
    /\ expIdx = 1
    /\ benchIdx = 1
    /\ saliency_dict_lst = NoSaliency
    /\ aggregated = [c \in BenchmarkerClasses |-> <<>>]
    /\ evals = <<>>

\* the sizes of the batches the dataset yields
ShardBatchSizes == {1, 10, 100, 1000}

\* lines 257-292 for a batch of n samples (fewer at the end of the dataset):
\* the original image of each sample is saved under its shard directory and
\* the counter advances
save_original_image(n) ==
    /\ pc = "inference"
    /\ sample_index <= MaxSampleId
    /\ LET rest == MaxSampleId + 1 - sample_index
           cnt == IF n < rest THEN n ELSE rest
       IN /\ files' = files \cup
                 {OriginalImagePath(summary_timestamp.v, id) :
                      id \in sample_index..(sample_index + cnt - 1)}
          /\ sample_index' = sample_index + cnt
    /\ UNCHANGED trainVars
    /\ UNCHANGED <<dataset, nanAt, explainers, benchmarkers, firstReg, err, pc, runNo,
                   summaryOpen, opened, summary_timestamp, sample_id_labels, log,
                   batchIdx, expIdx, benchIdx, saliency_dict_lst, aggregated, evals>>

ShardNext == \E n \in ShardBatchSizes : save_original_image(n)

ShardSpec == ShardInit /\ [][ShardNext]_vars

-----------------------------------------------------------------------------
(* train.py: the incremental_learn loop *)

\* the orders random.shuffle can leave a list of n indices in
Shuffles(n) ==
    {f \in [1..n -> 0..(n - 1)] : \A i, k \in 1..n : f[i] = f[k] => i = k}

\* the file name f"mobilenetv2_head_{epoch+1}.ckpt", by its number
CheckpointName(e) == e + 1

\* the test made with the loop variable itself
CheckpointDue_ZeroBased(e) == e % config.save_checkpoint_epochs = 0

\* line 116: (epoch + 1) % config.save_checkpoint_epochs == 0
CheckpointDue(e) == (e + 1) % config.save_checkpoint_epochs = 0

\* the runner is not used by the script
RunnerUnused ==
    /\ dataset = <<>>
    /\ nanAt = {}
    /\ explainers = NoExplainers
    /\ benchmarkers = NoBenchmarkers
    /\ firstReg = [set |-> FALSE, explainers |-> NoExplainers,
                   benchmarkers |-> NoBenchmarkers]
    /\ err = Outcome("__main__", NoErr)
    /\ pc = "unused"
    /\ runNo = 0
    /\ summaryOpen = FALSE
    /\ opened = {}
    /\ summary_timestamp = NoTimestamp
    /\ sample_index = -1
    /\ sample_id_labels = <<>>
    /\ log = <<>>
    /\ files = {}
    /\ batchIdx = 1
    /\ expIdx = 1
    /\ benchIdx = 1
    /\ saliency_dict_lst = NoSaliency
    /\ aggregated = [c \in BenchmarkerClasses |-> <<>>]
    /\ evals = <<>>

\* lines 56-58, 79 and 97-102: incremental_learn with the values of the
\* configuration and the number of features extract_features returned
TrainInit ==
    /\ RunnerUnused
    /\ config \in [epoch_size : 0..MaxEpochs, save_checkpoint_epochs : 1..MaxSaveEpochs]
    /\ step_size \in 0..MaxStepSize
    /\ tpc = "epoch"
    /\ epoch = 0
    /\ idx_list = [i \in 1..step_size |-> i - 1]
    /\ jPos = 1
    /\ trained = <<>>
    /\ checkpoints = <<>>

\* lines 104-107: the next epoch begins with a shuffle of idx_list
train_shuffle ==
    /\ tpc = "epoch"
    /\ epoch < config.epoch_size
    /\ idx_list' \in Shuffles(step_size)
    /\ jPos' = 1
    /\ trained' = <<>>
    /\ tpc' = "steps"
    /\ UNCHANGED <<config, step_size, epoch, checkpoints>>
    /\ UNCHANGED runnerVars

\* lines 108-111: the head is trained on the feature at the next position
train_step ==
    /\ tpc = "steps"
    /\ jPos <= Len(idx_list)
    /\ trained' = Append(trained, idx_list[jPos])
    /\ jPos' = jPos + 1
    /\ UNCHANGED <<config, step_size, tpc, epoch, idx_list, checkpoints>>
    /\ UNCHANGED runnerVars

\* lines 112-118: the epoch ends; epoch_mseconds / step_size raises
\* ZeroDivisionError when there is no feature; the checkpoint is written when due
train_epoch_end ==
    /\ tpc = "steps"
    /\ jPos > Len(idx_list)
    /\ IF step_size = 0
       THEN tpc' = "ZeroDivisionError" /\ UNCHANGED <<epoch, checkpoints>>
       ELSE /\ checkpoints' = IF CheckpointDue(epoch)
                              THEN Append(checkpoints, CheckpointName(epoch))
                              ELSE checkpoints
            /\ epoch' = epoch + 1
            /\ tpc' = "epoch"
    /\ UNCHANGED <<config, step_size, idx_list, jPos, trained>>
    /\ UNCHANGED runnerVars

\* line 119: the loop over the epochs is over
train_finish ==
    /\ tpc = "epoch"
    /\ ~(epoch < config.epoch_size)
    /\ tpc' = "done"
    /\ UNCHANGED <<config, step_size, epoch, idx_list, jPos, trained, checkpoints>>
    /\ UNCHANGED runnerVars

TrainNext ==
    \/ train_shuffle
    \/ train_step
    \/ train_epoch_end
    \/ train_finish

TrainSpec == TrainInit /\ [][TrainNext]_vars

-----------------------------------------------------------------------------
(* Properties *)

\* the entries of the log written by run() number r, in order
RunEntries(r) == SelectSeq(log, LAMBDA e : e.run = r)
OfType(entries, type) == SelectSeq(entries, LAMBDA e : e.type = type)
FilesOfRun(r) == {f \in files : f.ts = r}

\* the faults raised by _verify_data_n_settings
GateFaults ==
    {"not_registered", "dataset_read", "columns", "bboxes_shape",
     "localization_needs_bboxes", "image_shape", "label_shape", "empty_label",
     "duplicated_label", "network_output", "repeated_explainer",
     "explainer_network", "repeated_benchmarker", "num_labels"}

\* the last operation was a register_saliency call made after a registration
\* had succeeded, and it raised
RaisedAfterRegistration ==
    firstReg.set /\ err.op = "register_saliency" /\ err.kind # "none"

\* the arguments pass the checks of lines 163-173
WellFormedArgs(ea, ba) ==
    /\ ea.isList /\ ea.items # <<>>
    /\ \A i \in 1..Len(ea.items) : ea.items[i].isAttr
    /\ Truthy(ba) => ba.isList /\ \A i \in 1..Len(ba.items) : ba.items[i].isMetric

\* C1 as stated: a register_saliency call on a runner that holds a successful
\* registration raises RuntimeError, and the explainer and benchmarker lists
\* stay those of the first registration.
C1_SecondCallRaisesRuntimeError ==
    RaisedAfterRegistration =>
        /\ err.kind = "RuntimeError"
        /\ explainers = firstReg.explainers
        /\ benchmarkers = firstReg.benchmarkers

\* a step of the model that is a register_saliency call: the only operation
\* that starts and ends outside run() without starting a run()
IsRegisterCall == pc = "idle" /\ pc' = "idle" /\ runNo' = runNo

\* C1 amended: every register_saliency call on a runner that holds a successful
\* registration raises: RuntimeError when its arguments pass the argument
\* checks, the TypeError or ValueError of those checks otherwise; and the
\* explainer and benchmarker lists stay those of the first registration.
C1_SecondCallRaisesAndKeepsFirst ==
    /\ [](firstReg.set =>
             \A ea \in ExplainerArgs, ba \in BenchmarkerArgs :
                 LET fault == RegisterArgFault(ea, ba, explainers)
                 IN /\ WellFormedArgs(ea, ba) => fault.kind = "RuntimeError"
                    /\ ~WellFormedArgs(ea, ba) => fault.kind \in {"TypeError", "ValueError"})
    /\ [][(firstReg.set /\ IsRegisterCall) =>
             /\ err'.op = "register_saliency"
             /\ err'.kind \in {"RuntimeError", "TypeError", "ValueError"}
             /\ err'.kind = "RuntimeError" <=> err'.at = "registered_already"
             /\ explainers' = firstReg.explainers
             /\ benchmarkers' = firstReg.benchmarkers
             /\ firstReg' = firstReg]_vars

C1_Witness ==
    RaisedAfterRegistration /\ err.kind = "RuntimeError"
    /\ explainers = firstReg.explainers /\ Len(explainers.items) = 2

\* C2 as stated: a register_saliency call that raises, whatever it raises,
\* leaves the explainers and benchmarkers of the runner as they were before the
\* call.
C2_RaisingCallLeavesRegistrationUnchanged ==
    [][(IsRegisterCall /\ err'.op = "register_saliency" /\ err'.kind # "none") =>
          explainers' = explainers /\ benchmarkers' = benchmarkers]_vars

\* C3: when run() raises a fault of the gate, that run() has opened no
\* SummaryRecord and has written no log entry and no image file.
C3_GateFaultBeforeStorage ==
    (pc = "idle" /\ err.op = "run" /\ err.at \in GateFaults) =>
        /\ runNo \notin opened
        /\ RunEntries(runNo) = <<>>
        /\ FilesOfRun(runNo) = {}

C3_Witness ==
    /\ pc = "idle" /\ err.op = "run" /\ err.kind = "ValueError"
    /\ err.at = "not_registered" /\ runNo \notin opened

\* C4 as stated: no value passed to aggregate() is NaN.
C4_AggregateNeverGetsNaN ==
    \A c \in BenchmarkerClasses :
        \A k \in 1..Len(aggregated[c]) : ~aggregated[c][k].res.nan

\* C5 as stated: within one run() every log entry carries a step number
\* strictly greater than that of every entry written before it.
C5_StepsStrictlyIncrease ==
    \A i, j \in 1..Len(log) :
        (i < j /\ log[i].run = log[j].run) => log[i].step < log[j].step

\* C5 amended: every log entry carries the step number passed to
\* summary.record, which is 1 at every call: the step numbers of a run() are
\* all equal to 1 and never increase.
C5_StepsAreAllOne ==
    \A i \in 1..Len(log) : log[i].step = RecordStepArg

C5_Witness ==
    /\ \E i \in 1..Len(log) : log[i].type = "benchmark"
    /\ \E i \in 1..Len(log) : log[i].type = "explanation"
    /\ \E i \in 1..Len(log) : log[i].type = "inference"

\* C6 as stated: when the TypeError for a benchmarker that is neither
\* label-sensitive, label-agnostic nor Localization is raised, no log entry and
\* no image file has been written by that run().
C6_UnknownMetricRaisedBeforeStorage ==
    err.at = "benchmarker_kind" =>
        RunEntries(runNo) = <<>> /\ FilesOfRun(runNo) = {}

\* the samples of the dataset in iteration order: batch by batch, then by
\* position in the batch
RECURSIVE SamplesFrom(_)
SamplesFrom(i) ==
    IF i > Len(dataset) THEN <<>>
    ELSE [k \in 1..InputLen(dataset[i]) |->
             [gt |-> TransformLabels(dataset[i])[k], prob |-> dataset[i].rows[k].prob]]
         \o SamplesFrom(i + 1)

AllSamples == SamplesFrom(1)

\* run() number r has completed its inference pass
InferenceComplete(r) ==
    \/ OfType(RunEntries(r), "explanation") # <<>>
    \/ r = runNo /\ pc \in {"saliency", "explain", "benchmark", "pass_end"}

\* C7: in every run() the k-th sample entry and the k-th inference entry carry
\* the id k-1 and are written together, the inference entry holds the labels and
\* predictions of the k-th sample of the dataset in iteration order, the ids of
\* a completed inference pass are exactly 0..N-1, and a later run() assigns the
\* same ids again.
C7_InferenceIdsDenseInOrder ==
    \A r \in 1..runNo :
        LET entries == RunEntries(r)
            samples == OfType(entries, "sample")
            inferences == OfType(entries, "inference")
        IN /\ Len(samples) = Len(inferences)
           /\ Len(samples) <= Len(AllSamples)
           /\ InferenceComplete(r) => Len(samples) = Len(AllSamples)
           /\ r = runNo /\ pc = "inference" => sample_index = Len(samples)
           /\ \A k \in 1..Len(samples) :
                 /\ samples[k].id = k - 1
                 /\ inferences[k].id = k - 1
                 /\ inferences[k].labels = AllSamples[k].gt
                 /\ inferences[k].predicted = PredictedLabels(AllSamples[k].prob, Threshold)
                 /\ entries[2 * k].type = "sample" /\ entries[2 * k].id = k - 1
                 /\ entries[2 * k + 1].type = "inference" /\ entries[2 * k + 1].id = k - 1

C7_Witness ==
    /\ runNo = 2 /\ pc = "saliency" /\ Len(AllSamples) = 3
    /\ Len(OfType(RunEntries(1), "inference")) = 3
    /\ Len(OfType(RunEntries(2), "inference")) = 3
    /\ Len(dataset) = 2

Rank(e) ==
    IF e.type = "metadata" THEN 0
    ELSE IF e.type \in {"sample", "inference"} THEN 1
    ELSE IF e.type = "explanation" THEN 2 * e.exp
    ELSE 2 * e.exp + 1

\* C9: the entries of a run() are in the order metadata, sample and inference
\* entries of the whole dataset, then per explainer in registration order its
\* explanation entries followed, when benchmarkers are registered, by its
\* benchmark entry; and each evaluation of a metric is made after the
\* explanation entry of its sample and label was written.
C9_EntriesInPassOrder ==
    /\ \A i, j \in 1..Len(log) :
          i < j => /\ log[i].run <= log[j].run
                   /\ log[i].run = log[j].run => Rank(log[i]) <= Rank(log[j])
    /\ \A i \in 1..Len(log) :
          log[i].type = "metadata" <=> (i = 1 \/ log[i - 1].run # log[i].run)
    /\ \A r \in 1..runNo :
          LET entries == RunEntries(r)
          IN /\ OfType(entries, "explanation") # <<>> =>
                    Len(OfType(entries, "inference")) = Len(AllSamples)
             /\ \A e \in Range(entries) :
                    /\ e.type = "benchmark" => HasBenchmarkers(benchmarkers)
                    /\ e.type \in {"explanation", "benchmark"} =>
                           e.method = explainers.items[e.exp].name
                    /\ (e.type = "explanation" /\ e.exp > 1
                        /\ HasBenchmarkers(benchmarkers)) =>
                           \E f \in Range(entries) :
                               f.type = "benchmark" /\ f.exp = e.exp - 1
    /\ \A k \in 1..Len(evals) :
          \E i \in 1..evals[k].written :
              /\ log[i].type = "explanation"
              /\ log[i].run = evals[k].run
              /\ log[i].exp = evals[k].exp
              /\ log[i].id = evals[k].id
              /\ evals[k].label \in Range(log[i].labels)

C9_Witness ==
    /\ pc = "idle" /\ err.op = "run" /\ err.kind = "none"
    /\ Len(explainers.items) = 2
    /\ Len(OfType(RunEntries(runNo), "benchmark")) = 2
    /\ Len(evals) > 0 /\ Len(dataset) = 2

\* C10 as stated: the Localization metric is evaluated for a (sample, label)
\* only when the label is one of the sample's ground-truth labels and the
\* sample's mask dictionary holds a mask for it, and the mask of a label is
\* never looked up when the dictionary does not hold it.
C10_NoLookupOfMissingMask ==
    /\ ~(err.kind = "KeyError" /\ err.at = "mask_lookup")
    /\ \A k \in 1..Len(evals) :
          evals[k].benchmarker = "Localization" =>
              /\ evals[k].label \in Range(AllSamples[evals[k].id + 1].gt)
              /\ -1 < evals[k].label /\ evals[k].label < NumClasses

\* the last run() returned without raising
RunSucceeded == pc = "idle" /\ err.op = "run" /\ err.kind = "none"

\* C11: a run() that returns normally has written 1 metadata entry, N sample
\* and N inference entries, for each of the E explainers one explanation entry
\* per sample, and E benchmark entries of B scores each when B >= 1
\* benchmarkers are registered, none otherwise.
C11_EntryCountsOfSuccessfulRun ==
    RunSucceeded =>
        LET entries == RunEntries(runNo)
            N == Len(AllSamples)
            E == Len(explainers.items)
            B == Len(benchmarkers.items)
            explanations == OfType(entries, "explanation")
            benchmarks == OfType(entries, "benchmark")
        IN /\ E >= 1
           /\ Len(OfType(entries, "metadata")) = 1
           /\ Len(OfType(entries, "sample")) = N
           /\ Len(OfType(entries, "inference")) = N
           /\ Len(explanations) = N * E
           /\ \A x \in 1..E, id \in 0..(N - 1) :
                 Cardinality({k \in 1..Len(explanations) :
                                 explanations[k].exp = x /\ explanations[k].id = id}) = 1
           /\ Len(benchmarks) = IF B >= 1 THEN E ELSE 0
           /\ \A k \in 1..Len(benchmarks) :
                 /\ Len(benchmarks[k].scores) = B
                 /\ \A i \in 1..B :
                       benchmarks[k].scores[i].benchmark_method = benchmarkers.items[i].name
           /\ Len(entries) = 1 + 2 * N + N * E + (IF B >= 1 THEN E ELSE 0)

C11_Witness ==
    /\ RunSucceeded
    /\ Len(AllSamples) = 3 /\ Len(explainers.items) = 2 /\ Len(benchmarkers.items) = 2
    /\ Len(OfType(RunEntries(runNo), "explanation")) = 6
    /\ Len(OfType(RunEntries(runNo), "benchmark")) = 2

\* C12 as stated: every label of every union-label set the inference pass
\* returns is an integer in [0, num_classes).
C12_UnionLabelsInRange ==
    \A k \in 1..Len(sample_id_labels) :
        \A x \in Range(sample_id_labels[k]) : 0 <= x /\ x < NumClasses

\* C13: the union-label set stored for a sample holds exactly its ground-truth
\* labels and the classes whose probability is strictly above the threshold,
\* each once; and the union of {1,3} and {3,5} is {1,3,5} whatever the order
\* of the two lists.
C13_UnionIsGroundTruthOrAboveThreshold ==
    /\ \A k \in 1..Len(sample_id_labels) :
          LET u == sample_id_labels[k]
              gt == AllSamples[k].gt
              prob == AllSamples[k].prob
          IN /\ Range(u) = Range(gt) \cup
                              {c \in 0..(Len(prob) - 1) : prob[c + 1] > Threshold}
             /\ Len(u) = Cardinality(Range(u))
    /\ Range(UnionLabels(<<1, 3>>, <<3, 5>>)) = {1, 3, 5}
    /\ Len(UnionLabels(<<1, 3>>, <<3, 5>>)) = 3
    /\ UnionLabels(<<3, 1>>, <<5, 3>>) = UnionLabels(<<1, 3>>, <<3, 5>>)
    /\ UnionLabels(<<3, 5>>, <<1, 3>>) = UnionLabels(<<1, 3>>, <<3, 5>>)

C13_Witness ==
    \E k \in 1..Len(sample_id_labels) :
        /\ AllSamples[k].gt = <<1>>
        /\ PredictedLabels(AllSamples[k].prob, Threshold) = <<0, 1>>
        /\ sample_id_labels[k] = <<0, 1>>
        /\ \E j \in 1..Len(sample_id_labels) :
              \E c \in 1..NumClasses : AllSamples[j].prob[c] = Threshold

\* the sample ids whose original image lies in the shard directory d
IdsInShard(d) == {f.id : f \in {g \in files : g.kind = "origin_images" /\ g.dir = d}}

\* C14: the shard directory of a sample id >= 0 is the largest multiple of
\* 1000 not above the id; the ids 0..2999 map only to 0, 1000 and 2000; two ids
\* share a directory exactly when their quotients by 1000 are equal; and no
\* directory receives more than 1000 distinct ids.
C14_ShardDirname ==
    /\ \A f \in files :
          /\ f.dir % 1000 = 0
          /\ f.dir <= f.id /\ f.id < f.dir + 1000
          /\ f.id <= 2999 => f.dir \in {0, 1000, 2000}
          /\ GetSampleDirname(f.id) = f.dir
    /\ \A f \in files :
          (f.dir = GetSampleDirname(sample_index)) <=>
              (f.id \div 1000 = sample_index \div 1000)
    /\ \A d \in {f.dir : f \in files} : Cardinality(IdsInShard(d)) <= 1000

C14_Witness ==
    /\ sample_index = 3000
    /\ {f.dir : f \in files} = {0, 1000, 2000}
    /\ Cardinality(IdsInShard(1000)) = 1000

\* C15: outside run() no SummaryRecord is open, whether run() returned or
\* raised; inside run(), past the gate, the SummaryRecord it opened is open;
\* and no step removes or alters an entry of the log or a file: the log only
\* grows at its end.
C15_LogClosedOnEveryExit ==
    /\ [](pc = "idle" => ~summaryOpen)
    /\ [](pc # "idle" => summaryOpen /\ runNo \in opened)
    /\ [][/\ files \subseteq files'
          /\ \/ log' = log
             \/ Len(log') > Len(log) /\ SubSeq(log', 1, Len(log)) = log]_vars

C15_Witness ==
    /\ pc = "idle" /\ ~summaryOpen
    /\ err.op = "run" /\ err.kind \in {"KeyError", "TypeError", "IndexError"}
    /\ runNo \in opened
    /\ Len(OfType(RunEntries(runNo), "explanation")) > 0

\* the conditions on the explainers, the benchmarkers and the dataset that C16
\* lists
SaliencyConditions(eItems, bItems, ds) ==
    /\ \A i \in 1..Len(eItems) : eItems[i].net = "runner"
    /\ \A i, j \in 1..Len(eItems) : i < j => eItems[i].cls # eItems[j].cls
    /\ \A i, j \in 1..Len(bItems) : i < j => bItems[i].cls # bItems[j].cls
    /\ \A i \in 1..Len(bItems) :
          IsLabelSensitive(bItems[i]) => bItems[i].num_labels = NumClasses
    /\ (\E i \in 1..Len(bItems) : IsLocalization(bItems[i])) => ds[1].ncols = 3

\* the faults raised when one of these conditions does not hold
SaliencyFaults ==
    {"localization_needs_bboxes", "repeated_explainer", "explainer_network",
     "repeated_benchmarker", "num_labels"}

\* C16 as stated: a register_saliency call (with arguments that pass the
\* argument checks) succeeds only if all the conditions hold, and raises
\* ValueError when one of them does not hold.
C16_ValueErrorUnlessAllHold ==
    [][\A ea \in ExplainerArgs, ba \in BenchmarkerArgs :
          (WellFormedArgs(ea, ba) /\ register_saliency(ea, ba)) =>
              /\ err'.kind = "none" => SaliencyConditions(ea.items, ba.items, dataset)
              /\ ~SaliencyConditions(ea.items, ba.items, dataset) =>
                     err'.kind = "ValueError"]_vars

\* C16 amended: on a runner that holds no explainers, a register_saliency call
\* whose arguments pass the argument checks and that can read the first
\* element of the dataset succeeds exactly when all the conditions hold and
\* raises ValueError, storing nothing, otherwise; when the dataset cannot be
\* read the exception of the read is raised instead, and on a runner that
\* holds explainers every call raises.
C16_GateOfRegistration ==
    /\ [](\A ea \in ExplainerArgs, ba \in BenchmarkerArgs :
             WellFormedArgs(ea, ba) =>
                 LET check == VerifyDataNSettings([set |-> TRUE, items |-> ea.items],
                                  [isNone |-> ba.isNone, items |-> ba.items],
                                  dataset, TRUE, FALSE, FALSE, TRUE)
                 IN /\ SaliencyConditions(ea.items, ba.items, dataset) <=> check = NoErr
                    /\ check # NoErr =>
                           check.kind = "ValueError" /\ check.at \in SaliencyFaults)
    /\ [][IsRegisterCall =>
             IF explainers.set THEN err'.kind # "none" /\ explainers' = explainers
             ELSE /\ err'.kind = "none" =>
                        /\ explainers'.set
                        /\ SaliencyConditions(explainers'.items, benchmarkers'.items,
                                              dataset)
                  /\ (err'.kind = "ValueError" /\ err'.at # "argument") =>
                        ~explainers'.set /\ err'.at \in SaliencyFaults
                  /\ err'.kind = "RuntimeError" => err'.at = "dataset_read"
                  /\ err'.kind \in {"none", "ValueError", "TypeError", "RuntimeError"}]_vars

C16_Witness ==
    /\ err.op = "register_saliency" /\ err.kind = "none" /\ firstReg.set
    /\ Len(explainers.items) = 2
    /\ \E i \in 1..Len(benchmarkers.items) : IsLocalization(benchmarkers.items[i])
    /\ dataset[1].ncols = 3

\* the union-label set of the sample with the given id
UnionOf(id) ==
    Range(AllSamples[id + 1].gt) \cup
        Range(PredictedLabels(AllSamples[id + 1].prob, Threshold))

\* C17: an explanation record holds exactly one entry per label of its
\* sample's union-label set and nothing else, each entry with its heatmap file;
\* every heatmap file belongs to such an entry; the dictionaries handed to the
\* benchmark step have exactly the union-label sets as their keys; and the
\* records of a sample are the same for RISE and for the other explainers.
C17_OneEntryPerUnionLabel ==
    /\ \A i \in 1..Len(log) :
          log[i].type = "explanation" =>
              /\ Range(log[i].labels) = UnionOf(log[i].id)
              /\ Len(log[i].labels) = Cardinality(UnionOf(log[i].id))
              /\ \A l \in Range(log[i].labels) :
                    HeatmapPath(log[i].run, log[i].method, l, log[i].id) \in files
              /\ \A j \in 1..Len(log) :
                    (log[j].type = "explanation" /\ log[j].id = log[i].id) =>
                        log[j].labels = log[i].labels
    /\ \A f \in files :
          f.kind = "heatmap" =>
              /\ f.label \in UnionOf(f.id)
              /\ \E i \in 1..Len(log) :
                    /\ log[i].type = "explanation" /\ log[i].run = f.ts
                    /\ log[i].method = f.method /\ log[i].id = f.id
    /\ pc = "benchmark" =>
          /\ Len(saliency_dict_lst.dicts) = InputLen(dataset[batchIdx])
          /\ \A i \in 1..Len(saliency_dict_lst.dicts) :
                /\ Range(saliency_dict_lst.dicts[i]) =
                       UnionOf(saliency_dict_lst.firstId + i - 1)
                /\ Len(saliency_dict_lst.dicts[i]) =
                       Cardinality(Range(saliency_dict_lst.dicts[i]))

\* a batch whose rows of labels are padded: the first sample has two labels,
\* the second only label 1, explained by RISE and by Gradient
C17_Witness ==
    /\ pc = "benchmark" /\ batchIdx = 1
    /\ saliency_dict_lst.dicts = << <<0, 1>>, <<1>> >>
    /\ MakeLabelBatch(saliency_dict_lst.dicts) = << <<0, 1>>, <<1, 0>> >>
    /\ \E i, j \in 1..Len(log) :
          /\ log[i].method = "RISE" /\ log[j].method = "Gradient"
          /\ log[i].run = log[j].run
          /\ log[i].id = 1 /\ log[j].id = 1 /\ log[j].labels = <<1>>

\* the evaluate() calls made in run() r for the explainer at position x by the
\* benchmarker of class cls
EvalsOf(r, x, cls) ==
    SelectSeq(evals, LAMBDA c : c.run = r /\ c.exp = x /\ c.benchmarker = cls)

\* the score of a metric that was reset and then given the results of calls
ScoreOf(calls) ==
    Performance([k \in 1..Len(calls) |-> [res |-> NanToZero(Evaluate(calls[k].id))]])

\* C18: each benchmark entry holds, per registered benchmarker, the score of
\* exactly the evaluations made for its explainer in its run(), all of them
\* made before the entry was written and after the explainer's pass over the
\* whole dataset; there is one benchmark entry per explainer and run(), with
\* one score per benchmarker; the per-label scores are attached exactly for
\* label-sensitive benchmarkers; and every benchmarker starts an explainer's
\* pass with nothing aggregated.
C18_ScoresArePerExplainer ==
    /\ \A i \in 1..Len(log) :
          log[i].type = "benchmark" =>
              /\ Len(log[i].scores) = Len(benchmarkers.items)
              /\ \A b \in 1..Len(log[i].scores) :
                    LET bench == benchmarkers.items[b]
                        calls == EvalsOf(log[i].run, log[i].exp, bench.cls)
                    IN /\ log[i].scores[b].total_score = ScoreOf(calls)
                       /\ log[i].scores[b].benchmark_method = bench.name
                       /\ log[i].scores[b].label_score = IsLabelSensitive(bench)
                       /\ \A k \in 1..Len(calls) : calls[k].written < i
              /\ Cardinality({j \in 1..(i - 1) :
                     /\ log[j].type = "explanation"
                     /\ log[j].run = log[i].run
                     /\ log[j].exp = log[i].exp}) = Len(AllSamples)
              /\ \A j \in 1..Len(log) :
                    (log[j].type = "benchmark" /\ log[j].run = log[i].run
                     /\ log[j].exp = log[i].exp) => j = i
    /\ (pc = "explain" /\ batchIdx = 1 /\ HasBenchmarkers(benchmarkers)) =>
          \A b \in 1..Len(benchmarkers.items) :
              aggregated[benchmarkers.items[b].cls] = <<>>

C18_Witness ==
    /\ runNo = 2
    /\ \E i \in 1..Len(log) :
          /\ log[i].type = "benchmark" /\ log[i].run = 2 /\ log[i].exp = 2
          /\ Len(log[i].scores) = 2
          /\ log[i].scores[1].label_score /\ ~log[i].scores[2].label_score
          /\ Len(EvalsOf(2, 2, benchmarkers.items[1].cls)) > 0
          /\ Len(EvalsOf(1, 1, benchmarkers.items[1].cls)) > 0

\* the epochs (1-based) among the first n after which a checkpoint is due
DueEpochs(n) == {e \in 1..n : e % config.save_checkpoint_epochs = 0}

\* C19: when the loop over an epoch's indices is over, every index
\* 0..step_size-1 was trained on exactly once, in the order of the shuffled
\* list; and the checkpoints written are, in order, those named by the epochs
\* e completed so far with e a multiple of save_checkpoint_epochs, each once.
C19_EpochsAndCheckpoints ==
    /\ tpc \in {"epoch", "steps", "done"} =>
          /\ Len(checkpoints) = Cardinality(DueEpochs(epoch))
          /\ Range(checkpoints) = DueEpochs(epoch)
          /\ \A i, k \in 1..Len(checkpoints) : i < k => checkpoints[i] < checkpoints[k]
    /\ tpc = "steps" =>
          /\ trained = SubSeq(idx_list, 1, jPos - 1)
          /\ \A i, k \in 1..Len(trained) : trained[i] = trained[k] => i = k
          /\ jPos > Len(idx_list) =>
                /\ Len(trained) = step_size
                /\ Range(trained) = 0..(step_size - 1)
    /\ tpc = "done" => epoch = config.epoch_size

C19_Witness ==
    /\ tpc = "done"
    /\ config = [epoch_size |-> 3, save_checkpoint_epochs |-> 2]
    /\ step_size = 3
    /\ checkpoints = <<2>>
    /\ trained = <<2, 0, 1>>

\* C20 as stated: within one run() two explanation entries that differ in
\* explainer, sample id or label never have the same heatmap path, and two
\* samples never have the same original-image path.
C20_PathsNeverShared ==
    /\ \A i, j \in 1..Len(log) :
          (log[i].type = "explanation" /\ log[j].type = "explanation"
           /\ log[i].run = log[j].run) =>
              \A l1 \in Range(log[i].labels), l2 \in Range(log[j].labels) :
                  HeatmapPath(log[i].run, log[i].method, l1, log[i].id) =
                      HeatmapPath(log[j].run, log[j].method, l2, log[j].id)
                  => (log[i].exp = log[j].exp /\ log[i].id = log[j].id /\ l1 = l2)
    /\ \A i, j \in 1..Len(log) :
          (log[i].type = "sample" /\ log[j].type = "sample"
           /\ log[i].run = log[j].run /\ i # j) =>
              OriginalImagePath(log[i].run, log[i].id) #
                  OriginalImagePath(log[j].run, log[j].id)

\* _run_exp_step is about to run on a batch the inference pass stored a
\* union-label set for every sample of, each of them empty
EmptyUnionBatch ==
    /\ pc = "explain"
    /\ \A i \in 1..InputLen(dataset[batchIdx]) :
          /\ sample_index + i <= Len(sample_id_labels)
          /\ sample_id_labels[sample_index + i] = <<>>

\* C21 as stated: the explanation step on a batch in which every sample's
\* union-label set is empty completes without error: it writes one explanation
\* record with zero entries per sample, with the ids the inference pass gave
\* the samples, and advances the sample id by the batch size.
C21_ExplainsEmptyUnionBatch ==
    [][EmptyUnionBatch =>
          LET n == InputLen(dataset[batchIdx])
          IN /\ sample_index' = sample_index + n
             /\ Len(log') = Len(log) + n
             /\ \A i \in 1..n :
                   /\ log'[Len(log) + i].type = "explanation"
                   /\ log'[Len(log) + i].id = sample_index + i - 1
                   /\ log'[Len(log) + i].labels = <<>>
             /\ ~(pc' = "idle" /\ err'.kind # "none")]_vars

====
